---- MODULE Spec2Model ----
(***************************************************************************)
(* Inspection-deadline tracking of valve_manager.py: the valve store       *)
(* (class Database), the alert pause state and the periodic check          *)
(* (ValveManager.check_collauds), with the list colouring it drives.       *)
(*                                                                         *)
(* A calendar date is a triple <<year, month, day>>, as datetime.date      *)
(* holds it.  A stored date is the text adapt_date writes: the sequence    *)
(* of the character codes of "YYYY-MM-DD".                                 *)
(***************************************************************************)
EXTENDS Integers, Sequences, FiniteSets, TLC

(***************************************************************************)
(* datetime.date, as used by the source (line 3 imports it).               *)
(***************************************************************************)

\* datetime._is_leap
IsLeap(y) == (y % 4 = 0) /\ ((y % 100 # 0) \/ (y % 400 = 0))

\* datetime._days_in_month
DaysInMonth(y, m) ==
    IF m = 2 THEN (IF IsLeap(y) THEN 29 ELSE 28)
    ELSE IF m \in {4, 6, 9, 11} THEN 30 ELSE 31

\* datetime._days_before_year
DaysBeforeYear(y) ==
    (y - 1) * 365 + ((y - 1) \div 4) - ((y - 1) \div 100) + ((y - 1) \div 400)

\* datetime._days_before_month
RECURSIVE DaysBeforeMonth(_, _)
DaysBeforeMonth(y, m) ==
    IF m <= 1 THEN 0 ELSE DaysBeforeMonth(y, m - 1) + DaysInMonth(y, m - 1)

\* date.toordinal (datetime._ymd2ord)
toordinal(d) == DaysBeforeYear(d[1]) + DaysBeforeMonth(d[1], d[2]) + d[3]

\* date.fromordinal (datetime._ord2ymd), on the 400/100/4/1-year cycles
fromordinal(o) ==
    LET n0   == o - 1
        n400 == n0 \div 146097
        r400 == n0 % 146097
        n100 == r400 \div 36524
        r100 == r400 % 36524
        n4   == r100 \div 1461
        r4   == r100 % 1461
        n1   == r4 \div 365
        n    == r4 % 365
        year == n400 * 400 + 1 + n100 * 100 + n4 * 4 + n1
    IN  IF n1 = 4 \/ n100 = 4 THEN <<year - 1, 12, 31>>
        ELSE LET leap  == (n1 = 3) /\ ((n4 # 24) \/ (n100 = 3))
                 guess == (n + 50) \div 32
                 extra(mm) == IF mm > 2 /\ leap THEN 1 ELSE 0
                 before(mm) == DaysBeforeMonth(1, mm) + extra(mm)
                 month == IF before(guess) > n THEN guess - 1 ELSE guess
             IN  <<year, month, n - before(month) + 1>>

\* date + timedelta(days=k)
DateAdd(d, k) == fromordinal(toordinal(d) + k)

\* (a - b).days
DaysBetween(a, b) == toordinal(a) - toordinal(b)

\* date.__le__ / date.__lt__ : the comparison of (year, month, day)
DateLT(a, b) ==
    \/ a[1] < b[1]
    \/ a[1] = b[1] /\ a[2] < b[2]
    \/ a[1] = b[1] /\ a[2] = b[2] /\ a[3] < b[3]

DateLE(a, b) == a = b \/ DateLT(a, b)


(***************************************************************************)
(* Stored dates: adapt_date / convert_date.                                *)
(***************************************************************************)

\* code of a decimal digit; the code of '-' is 45
Digit(n) == 48 + n

\* None, and the value standing for a date that could not be built
None == <<>>

\* date.isoformat: "YYYY-MM-DD"
isoformat(d) ==
    << Digit(d[1] \div 1000), Digit((d[1] \div 100) % 10), Digit((d[1] \div 10) % 10),
       Digit(d[1] % 10), 45,
       Digit(d[2] \div 10), Digit(d[2] % 10), 45,
       Digit(d[3] \div 10), Digit(d[3] % 10) >>

IsDigit(c) == c >= 48 /\ c <= 57

\* date.fromisoformat; None stands for the ValueError it raises
fromisoformat(s) ==
    IF Len(s) # 10 \/ s[5] # 45 \/ s[8] # 45
       \/ \E i \in {1, 2, 3, 4, 6, 7, 9, 10} : ~IsDigit(s[i])
    THEN None
    ELSE LET y == (s[1] - 48) * 1000 + (s[2] - 48) * 100 + (s[3] - 48) * 10 + (s[4] - 48)
             m == (s[6] - 48) * 10 + (s[7] - 48)
             d == (s[9] - 48) * 10 + (s[10] - 48)
         IN  IF y < 1 \/ m < 1 \/ m > 12 \/ d < 1 THEN None
             ELSE IF d > DaysInMonth(y, m) THEN None
             ELSE <<y, m, d>>

\* adapt_date(val): what sqlite stores for a date
adapt_date(val) == isoformat(val)

\* convert_date(val): a date (a triple) is returned as it is, text is parsed
convert_date(val) == IF Len(val) = 3 THEN val ELSE fromisoformat(val)

(***************************************************************************)
(* List item texts: f"{valve[0]}: {valve[2]}" and text.split(":")[0].      *)
(* An id is a sequence of characters; the tag is kept as one token.        *)
(***************************************************************************)

ItemText(id, tag) == id \o <<":", " ", tag>>

\* the part of a text before its first ":" (the whole text if it has none)
RECURSIVE Split0(_)
Split0(text) ==
    IF text = <<>> THEN <<>>
    ELSE IF Head(text) = ":" THEN <<>>
    ELSE <<Head(text)>> \o Split0(Tail(text))


(***************************************************************************)
(* Bounds and inputs.                                                      *)
(***************************************************************************)

\* the day the program is started, and how many days the clock may advance
StartDay == <<2024, 11, 1>>
MaxAdvance == 1

\* serial numbers the user types; the empty one is refused by validation
Ids == { <<"A">>, <<"B">> }
IdInputs == Ids \cup { <<>> }

\* what the user enters in the date edit and the two spin boxes:
\* <<last inspection, years until the next one, days of advance notice>>
Entries ==
    { << <<2023, 1, 10>>, 2, 90 >>,
      << <<2023, 11, 2>>, 1, 1 >>,
      << <<2023, 11, 4>>, 1, 1 >> }

\* entries of the tray's "Pausa Alert" menu: 1 giorno, 1 mese (1 anno, 365,
\* runs the same code and ends as far beyond the days modelled as 30 does)
PauseDays == {1, 30}

\* a spin box without a range: value() is what was typed
SpinBox_unbounded(lo, hi, typed) == typed

\* QSpinBox.setRange(lo, hi): value() is always inside the range
SpinBox(lo, hi, typed) == IF typed < lo THEN lo ELSE IF typed > hi THEN hi ELSE typed

\* the six line edits of the form, all filled
FilledTexts ==
    [costruttore |-> "ACME", tag |-> "PSV", posizione |-> "P1",
     nominal_pressure |-> "10", inlet_diameter |-> "25", outlet_diameter |-> "40"]

TextNames == DOMAIN FilledTexts

\* the date edit and the spin boxes, holding entry e
FormOf(t, e) ==
    [texts |-> t,
     last_collaud_date |-> e[1],
     years_until_collaud |-> SpinBox(1, 10, e[2]),
     avviso_anticipo |-> SpinBox(1, 365, e[3])]

\* the form as save_valve and insert_valve read it (the serial number apart):
\* every entry with all texts filled, and one entry with one text left empty
Forms ==
    { FormOf(FilledTexts, e) : e \in Entries }
    \cup { FormOf([FilledTexts EXCEPT ![n] = ""], CHOOSE e \in Entries : TRUE) :
              n \in TextNames }

(***************************************************************************)
(* State.                                                                  *)
(***************************************************************************)
VARIABLES
    today,           \* the date date.today() returns
    app,             \* "running", "quit" (QApplication.quit), "crashed"
    visible,         \* the main window is shown
    db_open,         \* Database.conn is open
    valves,          \* table valves: rows in rowid order, dates as stored text
    valve_list,      \* QListWidget valve_list: items [text, bg]
    current,         \* valve_list.currentItem(): an index, 0 for none
    id_input,        \* text of the serial-number line edit
    id_enabled,      \* whether that line edit accepts input
    alerts_paused,   \* ValveManager.alerts_paused
    pause_end_date,  \* ValveManager.pause_end_date: a date or None
    messages,        \* tray messages shown by the last handler
    lastOp,          \* the last step: what it was given and the dates it read
    pause_hist,      \* <<[day, days]>> of the pause_alerts call in force, <<>> if
                     \* none was made since the start or the last resume_alerts
    report_table,    \* QTableWidget report_table: rows [id, ultimo, prossimo, avviso]
    exported,        \* the file the last export wrote: [format, rows]
    timer_due,       \* the QTimer has expired and its timeout is not yet delivered
    running          \* the slots entered and not yet returned, innermost last:
                     \* [slot, at], at "code" or "dialog" (inside a modal exec())

vars == <<today, app, visible, db_open, valves, valve_list, current, id_input,
          id_enabled, alerts_paused, pause_end_date, messages, lastOp, pause_hist,
          report_table, exported, timer_due, running>>

(***************************************************************************)
(* class Database.                                                         *)
(***************************************************************************)

\* a row as a SELECT returns it: PARSE_DECLTYPES runs convert_date on the DATE column
Fetched(row) == [row EXCEPT !.last_collaud_date = convert_date(@)]

\* the rows whose DATE column holds text date.fromisoformat refuses: the
\* converter raises ValueError inside fetchall
Unparseable(rows) ==
    {i \in DOMAIN rows : rows[i].last_collaud_date # None
                          /\ convert_date(rows[i].last_collaud_date) = None}

\* the rows whose DATE column is NULL: the converter is not run, valve[7] is
\* None and valve[7] + timedelta(...) raises TypeError
NullDated(rows) == {i \in DOMAIN rows : rows[i].last_collaud_date = None}

\* Database.get_valves; a closed connection raises sqlite3.Error: []
get_valves(open, rows) ==
    IF ~open THEN <<>>
    ELSE [i \in 1..Len(rows) |->
            [Fetched(rows[i]) EXCEPT !.last_collaud_date = convert_date(@)]]

\* Database.get_valve: <<row>> when found, <<>> for None
get_valve(open, rows, id) ==
    IF ~open THEN <<>>
    ELSE LET hit == {i \in 1..Len(rows) : rows[i].id = id}
         IN  IF hit = {} THEN <<>> ELSE <<Fetched(rows[CHOOSE i \in hit : TRUE])>>

\* Database.insert_valve: [ok, rows]
db_insert_valve(open, rows, valve) ==
    IF ~open THEN [ok |-> FALSE, rows |-> rows]
    ELSE IF \E i \in 1..Len(rows) : rows[i].id = valve.id
         THEN [ok |-> FALSE, rows |-> rows]
         ELSE [ok |-> TRUE,
               rows |-> Append(rows,
                   [valve EXCEPT !.last_collaud_date = adapt_date(@)])]

\* Database.update_valve: the rows after UPDATE ... WHERE id=?; id None matches no row
db_update_valve(open, rows, id, f) ==
    IF ~open THEN rows
    ELSE [i \in 1..Len(rows) |->
            IF id # None /\ rows[i].id = id
            THEN [id |-> rows[i].id,
                  costruttore |-> f.texts.costruttore,
                  tag |-> f.texts.tag,
                  posizione |-> f.texts.posizione,
                  nominal_pressure |-> f.texts.nominal_pressure,
                  inlet_diameter |-> f.texts.inlet_diameter,
                  outlet_diameter |-> f.texts.outlet_diameter,
                  last_collaud_date |-> adapt_date(f.last_collaud_date),
                  years_until_collaud |-> f.years_until_collaud,
                  avviso_anticipo |-> f.avviso_anticipo]
            ELSE rows[i]]

\* Database.delete_valve
db_delete_valve(open, rows, id) ==
    IF ~open THEN rows
    ELSE SelectSeq(rows, LAMBDA r : r.id # id)


(***************************************************************************)
(* Due date and status, as each place of the source computes them.         *)
(***************************************************************************)

\* check_collauds: next_collaud_date = valve[7] + timedelta(days=valve[8]*365)
next_collaud_date(valve) ==
    DateAdd(valve.last_collaud_date, valve.years_until_collaud * 365)

\* update_valve_colors: the same expression, written again there
color_next_collaud_date(valve) ==
    DateAdd(valve.last_collaud_date, valve.years_until_collaud * 365)

\* Promemoria with the notice window one day short (< for <=)
Promemoria_short(valve, day) ==
    LET next == DateAdd(valve.last_collaud_date, valve.years_until_collaud * 365)
    IN  IF DateLE(next, day)
        THEN << [title |-> "Promemoria Collaudo", id |-> valve.id,
                 costruttore |-> valve.costruttore, icon |-> "Critical",
                 giorni |-> <<>>] >>
        ELSE IF DaysBetween(next, day) < valve.avviso_anticipo
        THEN << [title |-> "Promemoria Collaudo", id |-> valve.id,
                 costruttore |-> valve.costruttore, icon |-> "Warning",
                 giorni |-> <<DaysBetween(next, day)>>] >>
        ELSE <<>>

\* Promemoria that remembers: a check right after a check that read the
\* store shows nothing again
Promemoria_once(valve, day) ==
    LET next == DateAdd(valve.last_collaud_date, valve.years_until_collaud * 365)
    IN  IF lastOp.name = "check_collauds" /\ lastOp.outcome = "ok" THEN <<>>
        ELSE IF DateLE(next, day)
        THEN << [title |-> "Promemoria Collaudo", id |-> valve.id,
                 costruttore |-> valve.costruttore, icon |-> "Critical",
                 giorni |-> <<>>] >>
        ELSE IF DaysBetween(next, day) <= valve.avviso_anticipo
        THEN << [title |-> "Promemoria Collaudo", id |-> valve.id,
                 costruttore |-> valve.costruttore, icon |-> "Warning",
                 giorni |-> <<DaysBetween(next, day)>>] >>
        ELSE <<>>

\* Promemoria with the two tests in the other order: the notice window is
\* tested before the due date
Promemoria_window_first(valve, day) ==
    LET next == DateAdd(valve.last_collaud_date, valve.years_until_collaud * 365)
    IN  IF DaysBetween(next, day) <= valve.avviso_anticipo
        THEN << [title |-> "Promemoria Collaudo", id |-> valve.id,
                 costruttore |-> valve.costruttore, icon |-> "Warning",
                 giorni |-> <<DaysBetween(next, day)>>] >>
        ELSE IF DateLE(next, day)
        THEN << [title |-> "Promemoria Collaudo", id |-> valve.id,
                 costruttore |-> valve.costruttore, icon |-> "Critical",
                 giorni |-> <<>>] >>
        ELSE <<>>

\* check_collauds, the body of the loop: the tray messages one row produces
Promemoria(valve, day) ==
    LET next == next_collaud_date(valve)
    IN  IF DateLE(next, day)
        THEN << [title |-> "Promemoria Collaudo", id |-> valve.id,
                 costruttore |-> valve.costruttore, icon |-> "Critical",
                 giorni |-> <<>>] >>
        ELSE IF DaysBetween(next, day) <= valve.avviso_anticipo
        THEN << [title |-> "Promemoria Collaudo", id |-> valve.id,
                 costruttore |-> valve.costruttore, icon |-> "Warning",
                 giorni |-> <<DaysBetween(next, day)>>] >>
        ELSE <<>>

\* check_collauds, the loop over the fetched rows
RECURSIVE PromemoriaAll(_, _)
PromemoriaAll(rows, day) ==
    IF rows = <<>> THEN <<>>
    ELSE Promemoria(Fetched(Head(rows)), day) \o PromemoriaAll(Tail(rows), day)

\* Background with the first comparison strict: a record due today is not red
Background_strict(valve, day) ==
    LET next == DateAdd(valve.last_collaud_date, valve.years_until_collaud * 365)
    IN  IF DateLT(next, day) THEN "red"
        ELSE IF DaysBetween(next, day) <= valve.avviso_anticipo THEN "darkyellow"
        ELSE "transparent"

\* update_valve_colors, the if/elif/else: the background an item gets
Background(valve, day) ==
    LET next == color_next_collaud_date(valve)
    IN  IF DateLE(next, day) THEN "red"
        ELSE IF DaysBetween(next, day) <= valve.avviso_anticipo THEN "darkyellow"
        ELSE "transparent"

\* update_valve_colors: items are coloured in order, each with its own
\* date.today(); an item whose get_valve is None raises TypeError there,
\* leaving the items after it as they were.  days[i] is the date item i reads.
update_valve_colors(items, open, rows, days) ==
    LET bad   == {i \in 1..Len(items) : get_valve(open, rows, Split0(items[i].text)) = <<>>}
        stop  == IF bad = {} THEN Len(items) + 1
                 ELSE CHOOSE i \in bad : \A j \in bad : i <= j
    IN  [items |-> [i \in 1..Len(items) |->
                      IF i < stop
                      THEN [items[i] EXCEPT !.bg =
                              Background(get_valve(open, rows, Split0(items[i].text))[1],
                                         days[i])]
                      ELSE items[i]],
         colored |-> stop - 1,
         raised |-> bad # {}]

\* load_valves: the list is rebuilt from get_valves, then coloured
load_valves(open, rows, days) ==
    LET got == get_valves(open, rows)
        fresh == [i \in 1..Len(got) |->
                    [text |-> ItemText(got[i].id, got[i].tag), bg |-> "default"]]
    IN  update_valve_colors(fresh, open, rows, days)

\* the input checks of save_valve and insert_valve, in their order; a date
\* object is never false, a zero spin-box value is
ValidForm(id, f) ==
    /\ id # <<>>
    /\ \A n \in TextNames : f.texts[n] # ""
    /\ f.years_until_collaud # 0

\* the tuple insert_valve hands to Database.insert_valve
ValveOf(id, f) ==
    [id |-> id,
     costruttore |-> f.texts.costruttore,
     tag |-> f.texts.tag,
     posizione |-> f.texts.posizione,
     nominal_pressure |-> f.texts.nominal_pressure,
     inlet_diameter |-> f.texts.inlet_diameter,
     outlet_diameter |-> f.texts.outlet_diameter,
     last_collaud_date |-> f.last_collaud_date,
     years_until_collaud |-> f.years_until_collaud,
     avviso_anticipo |-> f.avviso_anticipo]

\* what lastOp records of a step: its name and outcome, the days it was
\* given, the date of its first date.today(), the date check_collauds read
\* for the notifications, the date each coloured item read,
\* pause_end_date as the step found it and, for a check that directly
\* follows another check, the outcome of that one
Op(name, outcome, days, day0, day, item_days) ==
    [name |-> name, outcome |-> outcome, days |-> days,
     day0 |-> day0, day |-> day, item_days |-> item_days,
     prev_end |-> pause_end_date,
     prev |-> IF name = "check_collauds" /\ lastOp.name = "check_collauds"
              THEN lastOp.outcome ELSE ""]

\* is_suppressed with the end date itself still inside the pause (<= for <)
is_suppressed_late(paused, end_date, day) ==
    paused /\ end_date # None /\ DateLE(day, end_date)

\* is_suppressed that never holds: the pause is ignored
is_suppressed_never(paused, end_date, day) == FALSE

\* is_suppressed that looks at the end date alone: a pause ended by
\* resume_alerts goes on until its date
is_suppressed_by_date(paused, end_date, day) ==
    end_date # None /\ DateLT(day, end_date)

\* check_collauds, line 1005: the condition under which it returns at once
is_suppressed(paused, end_date, day) ==
    paused /\ end_date # None /\ DateLT(day, end_date)

\* id_modified that never holds: a changed serial number is let through
id_modified_never(original_id, valve_id) == FALSE

\* save_valve, line 656: the serial number was changed
id_modified(original_id, valve_id) ==
    original_id # None /\ valve_id # original_id

\* catches with the except clause missing: nothing is caught
catches_nothing(exc) == FALSE

\* check_collauds, line 1029: except sqlite3.Error, the exceptions it catches
catches(exc) == exc = "sqlite3.Error"

\* n reads of date.today(), all on the same day
SameDay(n, day) == [i \in 1..n |-> day]


(***************************************************************************)
(* ValveManager: the state after __init__, and its handlers.               *)
(***************************************************************************)

Init ==
    /\ today = StartDay
    /\ app = "running"
    /\ visible = TRUE
    /\ db_open = TRUE
    /\ valves = <<>>
    /\ valve_list = <<>>
    /\ current = 0
    /\ id_input = <<>>
    /\ id_enabled = TRUE
    /\ alerts_paused = FALSE
    /\ pause_end_date = None
    /\ messages = <<>>
    /\ lastOp = [name |-> "__init__", outcome |-> "ok", days |-> 0,
                 day0 |-> StartDay, day |-> StartDay, item_days |-> <<>>,
                 prev_end |-> None, prev |-> ""]
    /\ pause_hist = <<>>
    /\ report_table = <<>>
    /\ exported = [format |-> "", rows |-> <<>>]
    /\ timer_due = FALSE
    /\ running = <<>>

\* the handlers below leave the report table and the exported file alone
NoReport == UNCHANGED <<report_table, exported>>

\* a slot the event loop calls when no other slot is in progress, and that
\* returns within the step
Atomic == running = <<>> /\ UNCHANGED <<timer_due, running>>

\* slot is called and returns within the step, or is in progress as the
\* innermost slot and returns
Returns(slot) ==
    /\ IF running = <<>> THEN TRUE ELSE running[Len(running)].slot = slot
    /\ running' = IF running = <<>> THEN running
                  ELSE SubSeq(running, 1, Len(running) - 1)
    /\ UNCHANGED timer_due

\* midnight passes
AdvanceDay ==
    /\ NoReport
    /\ UNCHANGED <<timer_due, running>>
    /\ app = "running"
    /\ DaysBetween(today, StartDay) < MaxAdvance
    /\ today' = DateAdd(today, 1)
    /\ messages' = <<>>
    /\ lastOp' = Op("AdvanceDay", "ok", 0, today', today', <<>>)
    /\ UNCHANGED <<app, visible, db_open, valves, valve_list, current, id_input,
                   id_enabled, alerts_paused, pause_end_date, pause_hist>>

\* the user types a serial number into the enabled line edit
type_id(text) ==
    /\ NoReport
    /\ Atomic
    /\ app = "running" /\ visible /\ id_enabled
    /\ id_input' = text
    /\ messages' = <<>>
    /\ lastOp' = Op("type_id", "ok", 0, today, today, <<>>)
    /\ UNCHANGED <<today, app, visible, db_open, valves, valve_list, current,
                   id_enabled, alerts_paused, pause_end_date, pause_hist>>

\* pause_alerts that adds the days to a pause still running
pause_alerts_stacking(days) ==
    /\ NoReport
    /\ Atomic
    /\ app = "running"
    /\ alerts_paused' = TRUE
    /\ pause_end_date' =
          DateAdd(IF is_suppressed(alerts_paused, pause_end_date, today)
                  THEN pause_end_date ELSE today, days)
    /\ messages' = << [title |-> "Pausa Alert", id |-> <<>>, costruttore |-> "",
                       icon |-> "Information", giorni |-> <<days>>] >>
    /\ lastOp' = Op("pause_alerts", "ok", days, today, today, <<>>)
    /\ pause_hist' = << [day |-> today, days |-> days] >>
    /\ UNCHANGED <<today, app, visible, db_open, valves, valve_list, current,
                   id_input, id_enabled>>

\* pause_alerts(days), from the tray menu
pause_alerts(days) ==
    /\ NoReport
    /\ Atomic
    /\ app = "running"
    /\ alerts_paused' = TRUE
    /\ pause_end_date' = DateAdd(today, days)
    /\ messages' = << [title |-> "Pausa Alert", id |-> <<>>, costruttore |-> "",
                       icon |-> "Information", giorni |-> <<days>>] >>
    /\ lastOp' = Op("pause_alerts", "ok", days, today, today, <<>>)
    /\ pause_hist' = << [day |-> today, days |-> days] >>
    /\ UNCHANGED <<today, app, visible, db_open, valves, valve_list, current,
                   id_input, id_enabled>>

\* resume_alerts, from the tray menu
resume_alerts ==
    /\ NoReport
    /\ Atomic
    /\ app = "running"
    /\ alerts_paused' = FALSE
    /\ messages' = << [title |-> "Pausa Alert", id |-> <<>>, costruttore |-> "",
                       icon |-> "Information", giorni |-> <<>>] >>
    /\ lastOp' = Op("resume_alerts", "ok", 0, today, today, <<>>)
    /\ pause_hist' = <<>>
    /\ UNCHANGED <<today, app, visible, db_open, valves, valve_list, current,
                   id_input, id_enabled, pause_end_date>>

\* the date the j-th date.today() of a handler returns when midnight passes
\* just before its roll-th read (roll = 0: it does not pass)
ReadAt(roll, j) == IF roll # 0 /\ j >= roll THEN DateAdd(today, 1) ELSE today

\* check_collauds, the timer's slot; locked: the store is busy (locked by
\* another process) and cursor.execute raises sqlite3.OperationalError
check_collauds(roll, locked) ==
    /\ NoReport
    /\ Returns("check_collauds")
    /\ app = "running"
    /\ LET asks  == alerts_paused /\ pause_end_date # None
           first == IF asks THEN 1 ELSE 0
       IN  IF is_suppressed(alerts_paused, pause_end_date, today)
           THEN \* line 1006: return
                /\ roll = 0 /\ ~locked
                /\ messages' = <<>>
                /\ lastOp' = Op("check_collauds", "suppressed", 0, today, today, <<>>)
                /\ UNCHANGED <<today, app, valve_list>>
           ELSE IF ~db_open \/ locked
           THEN \* cursor.execute raises sqlite3.Error, which is caught
                /\ roll = 0
                /\ messages' = <<>>
                /\ app' = IF catches("sqlite3.Error") THEN app ELSE "crashed"
                /\ lastOp' = Op("check_collauds", "db_error", 0, today, today, <<>>)
                /\ UNCHANGED <<today, valve_list>>
           ELSE IF Unparseable(valves) # {}
           THEN \* line 1009: fetchall raises ValueError before any message
                /\ roll = 0
                /\ messages' = <<>>
                /\ app' = IF catches("ValueError") THEN app ELSE "crashed"
                /\ lastOp' = Op("check_collauds", "malformed", 0, today, today, <<>>)
                /\ UNCHANGED <<today, valve_list>>
           ELSE IF NullDated(valves) # {}
           THEN \* line 1012: the loop raises TypeError at the first such row
                /\ roll = 0
                /\ LET stop == CHOOSE i \in NullDated(valves) :
                                   \A j \in NullDated(valves) : i <= j
                   IN  messages' = PromemoriaAll(SubSeq(valves, 1, stop - 1), today)
                /\ app' = IF catches("TypeError") THEN app ELSE "crashed"
                /\ lastOp' = Op("check_collauds", "malformed", 0, today, today, <<>>)
                /\ UNCHANGED <<today, valve_list>>
           ELSE LET day    == ReadAt(roll, first + 1)
                    days   == [i \in 1..Len(valve_list) |-> ReadAt(roll, first + 1 + i)]
                    col    == update_valve_colors(valve_list, db_open, valves, days)
                    reads  == first + 1 + col.colored
                IN  /\ roll = 0 \/ (roll >= 2 /\ roll <= reads
                                    /\ DaysBetween(today, StartDay) < MaxAdvance)
                    /\ messages' = PromemoriaAll(valves, day)
                    /\ valve_list' = col.items
                    \* a TypeError is not a sqlite3.Error: it leaves the slot
                    /\ app' = IF col.raised /\ ~catches("TypeError")
                              THEN "crashed" ELSE app
                    /\ today' = ReadAt(roll, reads)
                    /\ lastOp' = Op("check_collauds",
                                    IF col.raised THEN "raised" ELSE "ok",
                                    0, today, day,
                                    SubSeq(days, 1, col.colored))
    /\ UNCHANGED <<visible, db_open, valves, current, id_input, id_enabled,
                   alerts_paused, pause_end_date, pause_hist>>

\* show_valve_details(item): the user clicks item i of the list
show_valve_details(i) ==
    /\ NoReport
    /\ Atomic
    /\ app = "running" /\ visible
    /\ i \in 1..Len(valve_list)
    /\ LET valve == get_valve(db_open, valves, Split0(valve_list[i].text))
       IN  /\ id_input' = IF valve # <<>> THEN valve[1].id ELSE id_input
           /\ lastOp' = Op("show_valve_details",
                           IF valve # <<>> THEN "shown" ELSE "none",
                           0, today, today, <<>>)
    /\ current' = i
    /\ id_enabled' = FALSE
    /\ messages' = <<>>
    /\ UNCHANGED <<today, app, visible, db_open, valves, valve_list,
                   alerts_paused, pause_end_date, pause_hist>>

\* prepare_new_valve ("Cancella Scheda")
prepare_new_valve ==
    /\ NoReport
    /\ Atomic
    /\ app = "running" /\ visible
    /\ id_input' = <<>>
    /\ id_enabled' = TRUE
    /\ messages' = <<>>
    /\ lastOp' = Op("prepare_new_valve", "ok", 0, today, today, <<>>)
    /\ UNCHANGED <<today, app, visible, db_open, valves, valve_list, current,
                   alerts_paused, pause_end_date, pause_hist>>


\* save_valve ("Salva modifiche"); reply answers 'Conferma salvataggio'
save_valve(f, reply) ==
    /\ NoReport
    /\ Atomic
    /\ app = "running" /\ visible
    /\ messages' = <<>>
    /\ IF current = 0
       THEN \* currentItem() is None: AttributeError, caught by the handler
            /\ lastOp' = Op("save_valve", "exception", 0, today, today, <<>>)
            /\ UNCHANGED <<valves, valve_list>>
       ELSE LET original_valve ==
                    get_valve(db_open, valves, Split0(valve_list[current].text))
                original_id ==
                    IF original_valve # <<>> THEN original_valve[1].id ELSE None
            IN  IF ~ValidForm(id_input, f)
                THEN /\ lastOp' = Op("save_valve", "invalid", 0,
                                     today, today, <<>>)
                     /\ UNCHANGED <<valves, valve_list>>
                ELSE IF id_modified(original_id, id_input)
                THEN /\ lastOp' = Op("save_valve", "rejected", 0,
                                     today, today, <<>>)
                     /\ UNCHANGED <<valves, valve_list>>
                ELSE IF ~reply
                THEN /\ lastOp' = Op("save_valve", "declined", 0,
                                     today, today, <<>>)
                     /\ UNCHANGED <<valves, valve_list>>
                ELSE LET rows == db_update_valve(db_open, valves, original_id, f)
                         col  == update_valve_colors(valve_list, db_open, rows,
                                                     SameDay(Len(valve_list), today))
                     IN  /\ valves' = rows
                         /\ valve_list' = col.items
                         /\ lastOp' = Op("save_valve", "saved", 0,
                                         today, today, SameDay(col.colored, today))
    /\ UNCHANGED <<today, app, visible, db_open, current, id_input, id_enabled,
                   alerts_paused, pause_end_date, pause_hist>>

\* insert_valve ("Inserisci Valvola")
insert_valve(f) ==
    /\ NoReport
    /\ Atomic
    /\ app = "running" /\ visible
    /\ messages' = <<>>
    /\ IF ~ValidForm(id_input, f)
       THEN /\ lastOp' = Op("insert_valve", "invalid", 0, today, today, <<>>)
            /\ UNCHANGED <<valves, valve_list, current>>
       ELSE LET ins == db_insert_valve(db_open, valves, ValveOf(id_input, f))
            IN  IF ins.ok
                THEN LET col == load_valves(db_open, ins.rows,
                                            SameDay(Len(ins.rows), today))
                     IN  /\ valves' = ins.rows
                         /\ valve_list' = col.items
                         /\ current' = 0
                         /\ lastOp' = Op("insert_valve", "inserted", 0,
                                         today, today, SameDay(col.colored, today))
                ELSE /\ lastOp' = Op("insert_valve", "exists", 0,
                                     today, today, <<>>)
                     /\ UNCHANGED <<valves, valve_list, current>>
    /\ UNCHANGED <<today, app, visible, db_open, id_input, id_enabled,
                   alerts_paused, pause_end_date, pause_hist>>

\* delete_valve ("Elimina Valvola"); reply answers 'Conferma eliminazione'
delete_valve(reply) ==
    /\ NoReport
    /\ Returns("delete_valve")
    /\ app = "running" /\ visible
    /\ messages' = <<>>
    /\ IF current = 0
       THEN /\ lastOp' = Op("delete_valve", "exception", 0, today, today, <<>>)
            /\ UNCHANGED <<valves, valve_list, current>>
       ELSE LET valve_id == Split0(valve_list[current].text)
            IN  IF ~reply
                THEN /\ lastOp' = Op("delete_valve", "declined", 0,
                                     today, today, <<>>)
                     /\ UNCHANGED <<valves, valve_list, current>>
                ELSE LET rows == db_delete_valve(db_open, valves, valve_id)
                         col  == load_valves(db_open, rows, SameDay(Len(rows), today))
                     IN  /\ valves' = rows
                         /\ valve_list' = col.items
                         /\ current' = 0
                         /\ lastOp' = Op("delete_valve", "deleted", 0,
                                         today, today, SameDay(col.colored, today))
    /\ UNCHANGED <<today, app, visible, db_open, id_input, id_enabled,
                   alerts_paused, pause_end_date, pause_hist>>

\* closeEvent; result is the button of the dialog "Chiudi programma":
\* "accepted" (Ok), "rejected" (Cancel), "minimize" (Minimizza nel tray)
closeEvent(result) ==
    /\ NoReport
    /\ Returns("closeEvent")
    /\ app = "running" /\ visible
    /\ messages' = <<>>
    /\ lastOp' = Op("closeEvent", result, 0, today, today, <<>>)
    /\ db_open' = IF result \in {"accepted", "minimize"} THEN FALSE ELSE db_open
    /\ app' = IF result = "accepted" THEN "quit" ELSE app
    /\ visible' = IF result = "rejected" THEN visible ELSE FALSE
    /\ UNCHANGED <<today, valves, valve_list, current, id_input, id_enabled,
                   alerts_paused, pause_end_date, pause_hist>>

\* the tray's "Mostra": QMainWindow.show
show ==
    /\ NoReport
    /\ Atomic
    /\ app = "running" /\ ~visible
    /\ visible' = TRUE
    /\ messages' = <<>>
    /\ lastOp' = Op("show", "ok", 0, today, today, <<>>)
    /\ UNCHANGED <<today, app, db_open, valves, valve_list, current, id_input,
                   id_enabled, alerts_paused, pause_end_date, pause_hist>>

\* report_next_collaud_date adding calendar years: same month and day
report_next_collaud_date_calendar(valve) ==
    << valve.last_collaud_date[1] + valve.years_until_collaud,
       valve.last_collaud_date[2], valve.last_collaud_date[3] >>

\* generate_report, export_to_pdf, export_to_csv, export_to_excel: each
\* writes next_collaud_date = valve[7] + timedelta(days=valve[8]*365) again
report_next_collaud_date(valve) ==
    DateAdd(valve.last_collaud_date, valve.years_until_collaud * 365)

\* show_valve_details computes it too, and shows it nowhere
details_next_collaud_date(valve) ==
    DateAdd(valve.last_collaud_date, valve.years_until_collaud * 365)

pdf_next_collaud_date(valve) ==
    DateAdd(valve.last_collaud_date, valve.years_until_collaud * 365)

csv_next_collaud_date(valve) ==
    DateAdd(valve.last_collaud_date, valve.years_until_collaud * 365)

excel_next_collaud_date(valve) ==
    DateAdd(valve.last_collaud_date, valve.years_until_collaud * 365)

\* giorni_rimanenti(last_collaud_date, years_until_collaud, avviso_anticipo),
\* with the date its date.today() returns
giorni_rimanenti(last_collaud_date, years_until_collaud, avviso_anticipo, day) ==
    LET next == DateAdd(last_collaud_date, years_until_collaud * 365)
        giorni == DaysBetween(next, day)
    IN  IF giorni < 0 THEN 0
        ELSE IF giorni <= avviso_anticipo THEN giorni
        ELSE avviso_anticipo

\* str(date), as the table items, the PDF line and the CSV writer hold a date
str(d) == isoformat(d)

\* generate_report ("Genera Report"): one table row per row of get_valves
generate_report ==
    /\ app = "running" /\ visible
    /\ Atomic
    /\ LET got == get_valves(db_open, valves)
       IN  report_table' =
             [i \in 1..Len(got) |->
                [id |-> got[i].id,
                 ultimo |-> str(got[i].last_collaud_date),
                 prossimo |-> str(report_next_collaud_date(got[i])),
                 avviso |-> got[i].avviso_anticipo]]
    /\ messages' = <<>>
    /\ lastOp' = Op("generate_report", "ok", 0, today, today, <<>>)
    /\ UNCHANGED <<today, app, visible, db_open, valves, valve_list, current,
                   id_input, id_enabled, alerts_paused, pause_end_date,
                   pause_hist, exported>>

\* export_report ("Esporta Report") with a format and a file name chosen:
\* export_to_pdf and export_to_csv write the dates as text, export_to_excel
\* appends the date objects
export_report(format) ==
    /\ app = "running" /\ visible
    /\ Atomic
    /\ LET got == get_valves(db_open, valves)
       IN  exported' =
             [format |-> format,
              rows |->
                [i \in 1..Len(got) |->
                   [id |-> got[i].id,
                    ultimo |-> IF format = "Excel" THEN got[i].last_collaud_date
                               ELSE str(got[i].last_collaud_date),
                    prossimo |->
                       IF format = "PDF" THEN str(pdf_next_collaud_date(got[i]))
                       ELSE IF format = "CSV" THEN str(csv_next_collaud_date(got[i]))
                       ELSE excel_next_collaud_date(got[i]),
                    avviso |-> got[i].avviso_anticipo]]]
    /\ messages' = <<>>
    /\ lastOp' = Op("export_report", format, 0, today, today, <<>>)
    /\ UNCHANGED <<today, app, visible, db_open, valves, valve_list, current,
                   id_input, id_enabled, alerts_paused, pause_end_date,
                   pause_hist, report_table>>

Next ==
    \/ AdvanceDay
    \/ \E text \in IdInputs : type_id(text)
    \/ \E days \in PauseDays : pause_alerts(days)
    \/ resume_alerts
    \/ check_collauds(0, FALSE)
    \/ \E i \in 1..Cardinality(Ids) : show_valve_details(i)
    \/ prepare_new_valve
    \/ \E f \in Forms, reply \in BOOLEAN : save_valve(f, reply)
    \/ \E f \in Forms : insert_valve(f)
    \/ \E reply \in BOOLEAN : delete_valve(reply)
    \/ \E result \in {"accepted", "rejected", "minimize"} : closeEvent(result)
    \/ show

Spec == Init /\ [][Next]_vars

\* the handlers that compute a due date, over stores built by insert_valve
NextReport ==
    \/ AdvanceDay
    \/ \E text \in IdInputs : type_id(text)
    \/ \E f \in Forms : insert_valve(f)
    \/ check_collauds(0, FALSE)
    \/ generate_report
    \/ \E format \in {"PDF", "CSV", "Excel"} : export_report(format)

SpecReport == Init /\ [][NextReport]_vars

\* serial numbers with a ":" in them: the line edit takes any text, and the
\* list item "A:1: tag" is read back as "A" by split(":")[0]
ColonIds == { <<"A">>, <<"A", ":", "1">> }

\* the handlers of the valve form and the timer, over such serial numbers
NextColon ==
    \/ \E text \in ColonIds \cup { <<>> } : type_id(text)
    \/ \E f \in Forms : insert_valve(f)
    \/ \E i \in 1..Cardinality(ColonIds) : show_valve_details(i)
    \/ prepare_new_valve
    \/ \E f \in Forms, reply \in BOOLEAN : save_valve(f, reply)
    \/ \E reply \in BOOLEAN : delete_valve(reply)
    \/ check_collauds(0, FALSE)

SpecColon == Init /\ [][NextColon]_vars

\* what the user gives the date edit and the two spin boxes, non-positive
\* numbers included; each entry has its own date, so that a stored row tells
\* the entry it was made from
TypedEntries ==
    { << <<2023, 1, 10>>, 2, 90 >>,
      << <<2023, 11, 2>>, 0, 90 >>,
      << <<2023, 11, 4>>, 1, 0 >>,
      << <<2023, 11, 6>>, -1, -5 >> }

TypedForms == { FormOf(FilledTexts, e) : e \in TypedEntries }

\* the handlers of the valve form, with such entries
NextForm ==
    \/ \E text \in IdInputs : type_id(text)
    \/ \E f \in TypedForms : insert_valve(f)
    \/ \E i \in 1..Cardinality(Ids) : show_valve_details(i)
    \/ prepare_new_valve
    \/ \E f \in TypedForms, reply \in BOOLEAN : save_valve(f, reply)

SpecForm == Init /\ [][NextForm]_vars

\* rows another program can write into valves.db while this one runs: the
\* table declares its columns without NOT NULL or CHECK, so a DATE column can
\* hold a date, text that is no date ("2024-02-30"), or NULL
ForeignRows ==
    LET row(id, last) ==
          [id |-> id, costruttore |-> "ACME", tag |-> "PSV", posizione |-> "P1",
           nominal_pressure |-> "10", inlet_diameter |-> "25",
           outlet_diameter |-> "40", last_collaud_date |-> last,
           years_until_collaud |-> 1, avviso_anticipo |-> 1]
    IN  { row(<<"A">>, isoformat(<<2023, 11, 2>>)),
          row(<<"B">>, isoformat(<<2023, 11, 3>>)),
          row(<<"X">>, isoformat(<<2024, 2, 30>>)),
          row(<<"N">>, None) }

\* the most rows the store holds in SpecStore
MaxRows == 3

\* another program inserts a row into the table valves (id is its PRIMARY KEY)
external_insert(row) ==
    /\ NoReport
    /\ UNCHANGED <<timer_due, running>>
    /\ app = "running"
    /\ Len(valves) < MaxRows
    /\ \A i \in DOMAIN valves : valves[i].id # row.id
    /\ valves' = Append(valves, row)
    /\ messages' = <<>>
    /\ lastOp' = Op("external_insert", "ok", 0, today, today, <<>>)
    /\ UNCHANGED <<today, app, visible, db_open, valve_list, current, id_input,
                   id_enabled, alerts_paused, pause_end_date, pause_hist>>

\* the timer over a store that another program fills
NextStore ==
    \/ AdvanceDay
    \/ \E row \in ForeignRows : external_insert(row)
    \/ \E days \in PauseDays : pause_alerts(days)
    \/ resume_alerts
    \/ \E locked \in BOOLEAN : check_collauds(0, locked)

SpecStore == Init /\ [][NextStore]_vars

\* waits with every slot opening a modal dialog, check_collauds too
waits_always(slot) == TRUE

\* the slots that wait for an answer inside a modal dialog (QDialog.exec,
\* QMessageBox.question), where the event loop of the dialog serves the
\* timer; check_collauds shows its messages with tray_icon.showMessage, which
\* returns at once
waits(slot) == slot \in {"closeEvent", "save_valve", "delete_valve"}

\* the deepest nesting of slots followed
MaxDepth == 3

\* the 10 minutes of timer.start(600000) are over; a timer that is already
\* due is not due twice
timeout ==
    /\ app = "running" /\ ~timer_due
    /\ timer_due' = TRUE
    /\ UNCHANGED <<today, app, visible, db_open, valves, valve_list, current,
                   id_input, id_enabled, alerts_paused, pause_end_date, messages,
                   lastOp, pause_hist, report_table, exported, running>>

\* an event loop is at work: that of app.exec() when no slot is in progress,
\* else that of the modal dialog the innermost slot waits in
Dispatching == IF running = <<>> THEN TRUE ELSE running[Len(running)].at = "dialog"

\* the event loop delivers the timeout: check_collauds is entered
enter_check_collauds ==
    /\ app = "running" /\ timer_due /\ Dispatching
    /\ Len(running) < MaxDepth
    /\ timer_due' = FALSE
    /\ running' = Append(running,
                         [slot |-> "check_collauds",
                          at |-> IF waits("check_collauds") THEN "dialog" ELSE "code"])
    /\ UNCHANGED <<today, app, visible, db_open, valves, valve_list, current,
                   id_input, id_enabled, alerts_paused, pause_end_date, messages,
                   lastOp, pause_hist, report_table, exported>>

\* the user closes the window or presses "Elimina Valvola" with an item
\* selected: the slot is entered and opens its dialog
open_dialog(slot) ==
    /\ app = "running" /\ visible
    /\ running = <<>> /\ waits(slot)
    /\ slot = "delete_valve" => current # 0
    /\ running' = << [slot |-> slot, at |-> "dialog"] >>
    /\ UNCHANGED <<today, app, visible, db_open, valves, valve_list, current,
                   id_input, id_enabled, alerts_paused, pause_end_date, messages,
                   lastOp, pause_hist, report_table, exported, timer_due>>

\* the timer and the slots with a dialog, step by step: a slot is entered,
\* is in progress, and returns
NextTimer ==
    \/ \E text \in IdInputs : type_id(text)
    \/ \E f \in Forms : insert_valve(f)
    \/ \E i \in 1..Cardinality(Ids) : show_valve_details(i)
    \/ timeout
    \/ enter_check_collauds
    \/ \E locked \in BOOLEAN : check_collauds(0, locked)
    \/ \E slot \in {"closeEvent", "delete_valve"} : open_dialog(slot)
    \/ \E reply \in BOOLEAN : delete_valve(reply)
    \/ \E result \in {"accepted", "rejected", "minimize"} : closeEvent(result)
    \/ show

SpecTimer == Init /\ [][NextTimer]_vars

\* the most reads of date.today() one check makes: line 1005, line 1010 and
\* line 542 once for every item of the list
MaxReads == 2 + Cardinality(Ids)

\* the timer and the pause menu over stores built by insert_valve, with the
\* store busy at some checks and midnight passing during some
NextTick ==
    \/ AdvanceDay
    \/ \E text \in IdInputs : type_id(text)
    \/ \E f \in Forms : insert_valve(f)
    \/ \E days \in PauseDays : pause_alerts(days)
    \/ resume_alerts
    \/ \E roll \in 0..MaxReads, locked \in BOOLEAN : check_collauds(roll, locked)

SpecTick == Init /\ [][NextTick]_vars


(***************************************************************************)
(* The statements checked.  They are written in days since day 1, apart    *)
(* from the program's own date arithmetic.                                 *)
(***************************************************************************)

\* the due date of a record, as a day number: last inspection + 365 * years
DueDay(v) == toordinal(v.last_collaud_date) + 365 * v.years_until_collaud

\* days from day to the due date of v
Remaining(v, day) == DueDay(v) - toordinal(day)

\* the status of a record on a day
Status(v, day) ==
    IF Remaining(v, day) <= 0 THEN "EXPIRED"
    ELSE IF Remaining(v, day) <= v.avviso_anticipo THEN "DUE_SOON"
    ELSE "OK"

\* the statuses the tray messages of a check signal for serial number id
Signalled(id) ==
    LET of(icon) == {k \in DOMAIN messages :
                        messages[k].id = id /\ messages[k].icon = icon}
    IN  (IF of("Critical") # {} THEN {"EXPIRED"} ELSE {})
        \cup (IF of("Warning") # {} THEN {"DUE_SOON"} ELSE {})
        \cup (IF of("Critical") \cup of("Warning") = {} THEN {"OK"} ELSE {})

\* the status a background shows
Shown(bg) ==
    IF bg = "red" THEN "EXPIRED" ELSE IF bg = "darkyellow" THEN "DUE_SOON" ELSE "OK"

\* the last step was a check that got past the pause test and read the store
Checked == lastOp.name = "check_collauds" /\ lastOp.outcome \in {"ok", "raised"}

\* the rows of the store as a SELECT returns them
Stored == [i \in DOMAIN valves |-> Fetched(valves[i])]

\* the record update_valve_colors reads for item i of the list
RecordOf(i) == get_valve(db_open, valves, Split0(valve_list[i].text))[1]

\* C1: the status is a partition with closed boundaries, in the messages of a
\* check and in the colours: EXPIRED iff the due date is today or earlier,
\* DUE_SOON iff it is 1..avviso_anticipo days ahead, OK otherwise, and every
\* record gets exactly one of the three, on the date the code read for it.
C1_Partition ==
    /\ Checked =>
         \A i \in DOMAIN Stored :
             Signalled(Stored[i].id) = {Status(Stored[i], lastOp.day)}
    /\ \A i \in DOMAIN lastOp.item_days :
             Shown(valve_list[i].bg) = Status(RecordOf(i), lastOp.item_days[i])
    /\ \A i \in DOMAIN lastOp.item_days :
             valve_list[i].bg \in {"red", "darkyellow", "transparent"}

\* C1 witness: a check met a record due that very day and a record exactly
\* avviso_anticipo days before its due date, and coloured both
C1_Witness ==
    /\ Checked
    /\ Len(lastOp.item_days) = 2
    /\ \E i, j \in DOMAIN Stored :
          /\ Remaining(Stored[i], lastOp.day) = Stored[i].avviso_anticipo
          /\ Signalled(Stored[i].id) = {"DUE_SOON"}
          /\ Remaining(Stored[j], lastOp.day) < 0
          /\ Signalled(Stored[j].id) = {"EXPIRED"}
    /\ \E i, j \in DOMAIN valve_list :
          valve_list[i].bg = "red" /\ valve_list[j].bg = "darkyellow"


\* the messages a check is to show for the rows, in their order: Critical for
\* EXPIRED, Warning with the days remaining for DUE_SOON, nothing for OK
RECURSIVE Expected(_, _)
Expected(rows, day) ==
    IF rows = <<>> THEN <<>>
    ELSE LET v == Head(rows)
             e == IF Status(v, day) = "EXPIRED" THEN << <<v.id, "Critical", <<>> >> >>
                  ELSE IF Status(v, day) = "DUE_SOON"
                       THEN << <<v.id, "Warning", <<Remaining(v, day)>> >> >>
                       ELSE <<>>
         IN  e \o Expected(Tail(rows), day)

\* the messages shown, as <<serial number, icon, days>>
Events == [k \in DOMAIN messages |->
              <<messages[k].id, messages[k].icon, messages[k].giorni>>]

\* C3: a check that is not suppressed and reads the store shows exactly one
\* Critical message per EXPIRED record, one Warning with the exact number of
\* days left per DUE_SOON record and nothing for an OK record; one EXPIRED and
\* one OK record give a single Critical message; last inspection 2023-01-10,
\* 2 years, 90 days of notice, checked on 2024-11-01 gives a Warning of 69 days.
C3_ExactEvents ==
    Checked =>
       /\ Events = Expected(Stored, lastOp.day)
       /\ \A i \in DOMAIN Stored :
             Cardinality({k \in DOMAIN messages : messages[k].id = Stored[i].id}) <= 1
       /\ (/\ Len(Stored) = 2
           /\ \E i, j \in DOMAIN Stored :
                 /\ Status(Stored[i], lastOp.day) = "EXPIRED"
                 /\ Status(Stored[j], lastOp.day) = "OK")
          => (Len(messages) = 1 /\ messages[1].icon = "Critical")
       /\ \A i \in DOMAIN Stored :
             (/\ lastOp.day = <<2024, 11, 1>>
              /\ Stored[i].last_collaud_date = <<2023, 1, 10>>
              /\ Stored[i].years_until_collaud = 2
              /\ Stored[i].avviso_anticipo = 90)
             => \E k \in DOMAIN messages :
                   Events[k] = <<Stored[i].id, "Warning", <<69>> >>

\* C3 witness: a check on 2024-11-01 showed the Warning of 69 days for one
\* record and a Critical message for the other, and nothing else
C3_Witness ==
    /\ Checked
    /\ lastOp.day = <<2024, 11, 1>>
    /\ Len(messages) = 2
    /\ \E k, l \in DOMAIN messages :
          /\ messages[k].icon = "Warning" /\ messages[k].giorni = <<69>>
          /\ messages[l].icon = "Critical" /\ messages[l].id # messages[k].id

\* the test of line 1005 on the state a check found, in day numbers
PauseInForce(day) ==
    /\ alerts_paused
    /\ pause_end_date # None
    /\ toordinal(day) < toordinal(pause_end_date)

\* C4: a check that finds alerts paused with an end date after today shows
\* no message at all, whatever the status of the records.
C4_SuppressionGlobal ==
    (lastOp.name = "check_collauds" /\ PauseInForce(lastOp.day0))
        => (messages = <<>> /\ lastOp.outcome = "suppressed")

\* C4 witness: a check was suppressed while the store held an EXPIRED and a
\* DUE_SOON record
C4_Witness ==
    /\ lastOp.name = "check_collauds" /\ lastOp.outcome = "suppressed"
    /\ PauseInForce(lastOp.day0)
    /\ db_open
    /\ messages = <<>>
    /\ \E i, j \in DOMAIN Stored :
          /\ Status(Stored[i], lastOp.day0) = "EXPIRED"
          /\ Status(Stored[j], lastOp.day0) = "DUE_SOON"

\* the rows whose list item leads back to them: the text before the first
\* ":" of the item is the serial number
Listed == {i \in DOMAIN Stored :
              /\ i \in DOMAIN valve_list
              /\ valve_list[i].text = ItemText(Stored[i].id, Stored[i].tag)
              /\ Split0(valve_list[i].text) = Stored[i].id}

\* C5 as claimed: after a suppressed check every listed valve shows the
\* status it has on the day of the check.
C5_SuppressedStillColours ==
    (lastOp.name = "check_collauds" /\ lastOp.outcome = "suppressed")
        => \A i \in Listed : Shown(valve_list[i].bg) = Status(Stored[i], lastOp.day0)


\* C5 failing case: the check was suppressed and a listed valve, whose record
\* is in the store, shows a status it does not have that day
C5_Stale ==
    /\ lastOp.name = "check_collauds" /\ lastOp.outcome = "suppressed"
    /\ \E i \in Listed : Shown(valve_list[i].bg) # Status(Stored[i], lastOp.day0)

\* C6: with pause_alerts(d) called on day t and no resume_alerts since, a
\* check on a day before t + d is suppressed and a check on day t + d or
\* later is not.
C6_PauseWindow ==
    (lastOp.name = "check_collauds" /\ pause_hist # <<>>) =>
        LET t  == toordinal(pause_hist[1].day)
            d  == pause_hist[1].days
            t1 == toordinal(lastOp.day0)
        IN  /\ t <= t1
            /\ (t1 < t + d) => lastOp.outcome = "suppressed"
            /\ (t1 >= t + d) => lastOp.outcome # "suppressed"

\* C6 witness: a check ran on the day the pause ended, was not suppressed and
\* showed messages, with no resume_alerts in between
C6_Witness ==
    /\ lastOp.name = "check_collauds"
    /\ pause_hist # <<>>
    /\ toordinal(lastOp.day0) = toordinal(pause_hist[1].day) + pause_hist[1].days
    /\ lastOp.outcome = "ok"
    /\ messages # <<>>

\* C7 as claimed: after resume_alerts, alerts_paused is false and
\* pause_end_date is None.
C7_ResumeClears ==
    lastOp.name = "resume_alerts" => (~alerts_paused /\ pause_end_date = None)

\* C8: pause_alerts(d) on day t leaves alerts_paused true and pause_end_date
\* t + d, whatever the end date was before.
C8_PauseOverwrites ==
    lastOp.name = "pause_alerts" =>
        /\ alerts_paused
        /\ pause_end_date # None
        /\ toordinal(pause_end_date) = toordinal(lastOp.day0) + lastOp.days

\* C8 witness: a pause of 1 day was issued while a longer one was running,
\* and the end date moved back to the next day
C8_Witness ==
    /\ lastOp.name = "pause_alerts" /\ lastOp.days = 1
    /\ lastOp.prev_end # None
    /\ toordinal(lastOp.prev_end) > toordinal(lastOp.day0) + 1
    /\ pause_end_date = DateAdd(lastOp.day0, 1)

\* C9 as claimed: once a check has run on or after the end date of a pause
\* that no resume_alerts ended, alerts_paused is false and pause_end_date None.
C9_AutoCleared ==
    (/\ lastOp.name = "check_collauds"
     /\ pause_hist # <<>>
     /\ lastOp.prev_end # None
     /\ toordinal(lastOp.day0) >= toordinal(lastOp.prev_end))
        => (~alerts_paused /\ pause_end_date = None)

\* the serial numbers of the rows, in order
IdsOf(rows) == [i \in DOMAIN rows |-> rows[i].id]

\* C10: no handler changes the serial number of a stored record (a save keeps
\* every row's id, an insert and a delete leave the rows that stay as they
\* were), and a save whose serial-number field differs from the id of the
\* record being edited does not save and leaves the store as it was.
C10_IdImmutable ==
    [][ /\ lastOp'.name = "save_valve" => IdsOf(valves') = IdsOf(valves)
        /\ lastOp'.name = "insert_valve" =>
              (Len(valves') >= Len(valves) /\ SubSeq(valves', 1, Len(valves)) = valves)
        /\ lastOp'.name = "delete_valve" =>
              \A i \in DOMAIN valves' : \E j \in DOMAIN valves : valves'[i] = valves[j]
        /\ lastOp'.name \notin {"save_valve", "insert_valve", "delete_valve"} =>
              valves' = valves
        /\ (/\ lastOp'.name = "save_valve"
            /\ current # 0
            /\ get_valve(db_open, valves, Split0(valve_list[current].text)) # <<>>
            /\ id_input # RecordOf(current).id)
           => (valves' = valves /\ lastOp'.outcome \in {"rejected", "invalid"})
      ]_vars

\* C10 witness: a save was rejected because the serial-number field held
\* another non-empty serial number than the record being edited
C10_Witness ==
    /\ lastOp.name = "save_valve" /\ lastOp.outcome = "rejected"
    /\ current # 0
    /\ id_input \in Ids
    /\ id_input # RecordOf(current).id


\* the date a table item or an exported cell holds, as a day number
CellDay(cell) == toordinal(convert_date(cell))

\* C2: every place that computes the next due date gets last inspection +
\* 365 * years days, as a day count with no calendar correction: the check's
\* Warning (days left), the colours, the report table, the three exports and
\* giorni_rimanenti agree with it for every stored record.
C2_DueDate ==
    /\ Checked =>
         \A k \in DOMAIN messages : \A i \in DOMAIN Stored :
            (messages[k].id = Stored[i].id /\ messages[k].icon = "Warning")
               => messages[k].giorni = << DueDay(Stored[i]) - toordinal(lastOp.day) >>
    /\ Checked =>
         \A i \in DOMAIN Stored :
            (DueDay(Stored[i]) <= toordinal(lastOp.day))
               <=> (\E k \in DOMAIN messages :
                       messages[k].id = Stored[i].id /\ messages[k].icon = "Critical")
    /\ \A i \in DOMAIN lastOp.item_days :
            (valve_list[i].bg = "red")
               <=> (DueDay(RecordOf(i)) <= toordinal(lastOp.item_days[i]))
    /\ lastOp.name = "generate_report" =>
         /\ Len(report_table) = Len(Stored)
         /\ \A i \in DOMAIN Stored : CellDay(report_table[i].prossimo) = DueDay(Stored[i])
    /\ lastOp.name = "export_report" =>
         /\ Len(exported.rows) = Len(Stored)
         /\ \A i \in DOMAIN Stored : CellDay(exported.rows[i].prossimo) = DueDay(Stored[i])
    /\ \A i \in DOMAIN Stored :
         \A next \in { next_collaud_date(Stored[i]), color_next_collaud_date(Stored[i]),
                       details_next_collaud_date(Stored[i]),
                       report_next_collaud_date(Stored[i]),
                       pdf_next_collaud_date(Stored[i]), csv_next_collaud_date(Stored[i]),
                       excel_next_collaud_date(Stored[i]) } :
            toordinal(next) = DueDay(Stored[i])
    /\ \A i \in DOMAIN Stored :
         LET v == Stored[i]
             g == giorni_rimanenti(v.last_collaud_date, v.years_until_collaud,
                                   v.avviso_anticipo, today)
         IN  (Remaining(v, today) >= 0 /\ Remaining(v, today) <= v.avviso_anticipo)
                => g = Remaining(v, today)

\* C2 witness: a record last inspected on 2023-11-02 with a 1-year interval is
\* in the table and in an Excel export with the due date 2024-11-01, 365 days
\* on and one day short of the calendar anniversary 2024-11-02
C2_Witness ==
    /\ lastOp.name = "export_report" /\ exported.format = "Excel"
    /\ \E i \in DOMAIN Stored :
          /\ Stored[i].last_collaud_date = <<2023, 11, 2>>
          /\ Stored[i].years_until_collaud = 1
          /\ i \in DOMAIN exported.rows
          /\ exported.rows[i].prossimo = <<2024, 11, 1>>
          /\ i \in DOMAIN report_table
          /\ report_table[i].id = Stored[i].id
          /\ report_table[i].prossimo = isoformat(<<2024, 11, 1>>)

\* C11: insert_valve with a serial number already stored answers "exists" and
\* leaves every row as it was; with a new serial number it answers "inserted"
\* and adds that one row; so no two rows ever share a serial number.
C11_IdsUnique ==
    [][ (lastOp'.name = "insert_valve" /\ lastOp'.outcome # "invalid") =>
          /\ IF \E i \in DOMAIN valves : valves[i].id = id_input
             THEN lastOp'.outcome = "exists" /\ valves' = valves
             ELSE /\ lastOp'.outcome = "inserted"
                  /\ Len(valves') = Len(valves) + 1
                  /\ SubSeq(valves', 1, Len(valves)) = valves
                  /\ valves'[Len(valves')].id = id_input
          /\ \A i, j \in DOMAIN valves' :
                valves'[i].id = valves'[j].id => i = j ]_vars

\* C12: a save whose selected serial number has no row in the store reports
\* that it was not found, never success, and leaves every row as it was; a
\* save on a stored serial number reports success.
C12_UpdateNotFound ==
    [][ (lastOp'.name = "save_valve"
           /\ lastOp'.outcome \notin {"exception", "invalid", "rejected", "declined"}) =>
          IF get_valve(db_open, valves, Split0(valve_list[current].text)) = <<>>
          THEN lastOp'.outcome # "saved" /\ valves' = valves
          ELSE lastOp'.outcome = "saved" ]_vars

\* C13: no check lets an exception out of the slot: whatever the store and
\* the list hold, check_collauds returns and the program keeps running.
C13_TickNeverRaises ==
    [][ lastOp'.name = "check_collauds" =>
          lastOp'.outcome # "raised" /\ app' = "running" ]_vars

\* C14: a check whose read of the store fails shows no message and leaves the
\* program running; the check right after it reads the store anew and, when
\* that read succeeds, shows exactly the messages the rows call for.
C14_ReadFailure ==
    /\ (lastOp.name = "check_collauds" /\ lastOp.outcome = "db_error") =>
          messages = <<>> /\ app = "running"
    /\ (lastOp.name = "check_collauds" /\ lastOp.prev = "db_error"
          /\ lastOp.outcome = "ok") =>
          Events = Expected(Stored, lastOp.day) /\ app = "running"

\* C14 witness: a check failed on the read, and the very next one read the
\* store and notified a record
C14_Witness ==
    /\ lastOp.name = "check_collauds" /\ lastOp.prev = "db_error"
    /\ lastOp.outcome = "ok"
    /\ messages # <<>>
    /\ Events = Expected(Stored, lastOp.day)

\* every date.today() of the check recorded in op returned day
ReadOn(op, day) ==
    /\ op.day0 = day /\ op.day = day
    /\ \A i \in DOMAIN op.item_days : op.item_days[i] = day

\* C15: two checks in a row on the same day, with the same rows and the same
\* pause and neither failing on the read, have the same outcome, show the same
\* messages and leave the same colours: a check keeps nothing that changes
\* what the next one does.
C15_TickIdempotent ==
    [][ (/\ lastOp.name = "check_collauds" /\ lastOp'.name = "check_collauds"
         /\ lastOp.outcome # "db_error" /\ lastOp'.outcome # "db_error"
         /\ ReadOn(lastOp, today) /\ ReadOn(lastOp', today) /\ today' = today
         /\ valves' = valves
         /\ alerts_paused' = alerts_paused /\ pause_end_date' = pause_end_date) =>
          /\ lastOp'.outcome = lastOp.outcome
          /\ messages' = messages
          /\ valve_list' = valve_list ]_vars

\* C15 witness: on the first day, a check right after a check, both past the
\* pause test and the read, showed a message and coloured an item
C15_Witness ==
    /\ lastOp.name = "check_collauds" /\ lastOp.prev = "ok" /\ lastOp.outcome = "ok"
    /\ today = StartDay /\ ReadOn(lastOp, today)
    /\ messages # <<>>
    /\ \E i \in DOMAIN valve_list : valve_list[i].bg \in {"red", "darkyellow"}

\* the rows made from an entry with a non-positive interval or notice
FromNonPositive ==
    {i \in DOMAIN valves :
        \E e \in TypedEntries :
            (e[2] <= 0 \/ e[3] <= 0) /\ valves[i].last_collaud_date = adapt_date(e[1])}

C17_OneToday ==
    Checked =>
       \A i \in DOMAIN lastOp.item_days :
           Signalled(RecordOf(i).id) = {Shown(valve_list[i].bg)}

\* the rows of the store whose last inspection date is a date, as a SELECT
\* returns them
WellFormed ==
    LET good == SelectSeq(valves, LAMBDA r : r.last_collaud_date # None
                                             /\ convert_date(r.last_collaud_date) # None)
    IN  [i \in DOMAIN good |-> Fetched(good[i])]

\* C18: a check that reads the store skips a row whose last inspection date is
\* NULL or no date and goes on: the program keeps running and every other row
\* of the same read gets its message if it is EXPIRED or DUE_SOON.
C18_MalformedSkipped ==
    (lastOp.name = "check_collauds" /\ lastOp.outcome \in {"ok", "malformed"}) =>
        /\ app = "running"
        /\ Events = Expected(WellFormed, lastOp.day)

\* the checks in progress
ChecksRunning == {i \in DOMAIN running : running[i].slot = "check_collauds"}

\* C19: at most one check_collauds is in progress at any time: a timeout that
\* falls due while a check runs is delivered only after that check returned.
C19_NoOverlap ==
    /\ Cardinality(ChecksRunning) <= 1
    /\ \A i \in ChecksRunning : i = Len(running) /\ running[i].at = "code"

\* C19 witness: the timer fell due again while a check was in progress, the
\* check having been entered from the event loop of a slot's modal dialog
C19_Witness ==
    /\ timer_due
    /\ Len(running) = 2
    /\ running[1].at = "dialog"
    /\ running[2].slot = "check_collauds"
    /\ valves # <<>>

\* the serial numbers the messages shown name
Notified(shown) == {shown[k].id : k \in DOMAIN shown}

\* C20: nothing is remembered of the messages already shown: of two checks in
\* a row that both get past the pause test and read the store, the second
\* notifies again every record the first notified that is still EXPIRED or
\* DUE_SOON on its date.
C20_NoDeduplication ==
    [][ (/\ lastOp.name = "check_collauds" /\ lastOp.outcome = "ok"
         /\ lastOp'.name = "check_collauds" /\ lastOp'.outcome = "ok") =>
          \A i \in DOMAIN valves' :
             (valves'[i].id \in Notified(messages)
                /\ Status(Fetched(valves'[i]), lastOp'.day) # "OK")
                => valves'[i].id \in Notified(messages') ]_vars

\* C20 witness: a check right after a check that read the store shows a
\* Critical and a Warning message for records still expired and still due
C20_Witness ==
    /\ lastOp.name = "check_collauds" /\ lastOp.prev = "ok" /\ lastOp.outcome = "ok"
    /\ \E k, l \in DOMAIN messages :
          messages[k].icon = "Critical" /\ messages[l].icon = "Warning"
    /\ \A i \in DOMAIN Stored :
          Status(Stored[i], lastOp.day) # "OK" => Stored[i].id \in Notified(messages)

\* C21: a check that finds no pause issued since the last resume_alerts (or
\* since the start) is never suppressed, whatever the date and whatever end
\* date the earlier pause left behind; pause_alerts(d) issued on day t in that
\* state sets the end date to t + d, and a check under that pause is
\* suppressed exactly on the days before t + d.
C21_ResumeUntilNextPause ==
    [][ /\ (lastOp'.name = "check_collauds" /\ pause_hist = <<>>)
            => lastOp'.outcome # "suppressed"
        /\ (lastOp'.name = "pause_alerts" /\ ~alerts_paused)
            => /\ alerts_paused'
               /\ pause_end_date' # None
               /\ toordinal(pause_end_date') = toordinal(today) + lastOp'.days
               /\ pause_hist' = << [day |-> today, days |-> lastOp'.days] >>
        /\ (lastOp'.name = "check_collauds" /\ pause_hist # <<>>)
            => (lastOp'.outcome = "suppressed"
                  <=> toordinal(lastOp'.day0) <
                        toordinal(pause_hist[1].day) + pause_hist[1].days) ]_vars

\* C21 witness: after pause_alerts and resume_alerts a check ran before the
\* end date the pause left behind, read the store and showed messages
C21_Witness ==
    /\ Checked
    /\ pause_hist = <<>>
    /\ ~alerts_paused
    /\ pause_end_date # None
    /\ toordinal(lastOp.day0) < toordinal(pause_end_date)
    /\ messages # <<>>

\* C22 as claimed: while the window is hidden in the tray ("Minimizza nel
\* tray" was chosen and "Mostra" has not been), a check that is not suppressed
\* reads the store and shows a Critical message for every EXPIRED record and
\* a Warning for every DUE_SOON one.
C22_TrayKeepsAlerting ==
    (/\ lastOp.name = "check_collauds"
     /\ lastOp.outcome # "suppressed"
     /\ app = "running" /\ ~visible)
        => /\ Checked
           /\ Events = Expected(Stored, lastOp.day)

\* the status the messages one row produces signal
SignalOf(shown) ==
    IF shown = <<>> THEN "OK"
    ELSE IF shown[1].icon = "Critical" THEN "EXPIRED" ELSE "DUE_SOON"

\* C23: for one record and one date the colour and the message agree: red
\* exactly with a Critical message, dark yellow exactly with a Warning, no
\* colour exactly with no message.  It holds of the two if/elif chains on
\* every stored record and the current date, and of every check for every
\* item that read the date the messages were decided on.
C23_ColourMatchesMessage ==
    /\ \A i \in DOMAIN Stored :
          /\ Len(Promemoria(Stored[i], today)) <= 1
          /\ Shown(Background(Stored[i], today))
                = SignalOf(Promemoria(Stored[i], today))
    /\ Checked =>
          \A i \in DOMAIN lastOp.item_days :
              lastOp.item_days[i] = lastOp.day
                 => Signalled(RecordOf(i).id) = {Shown(valve_list[i].bg)}

\* C23 witness: a check decided the messages and both colours on one date;
\* the record due that day is red with a Critical message, the record two
\* days before its due date with one day of notice has no colour and no
\* message
C23_Witness ==
    /\ Checked /\ lastOp.outcome = "ok"
    /\ Len(lastOp.item_days) = 2
    /\ \A i \in DOMAIN lastOp.item_days : lastOp.item_days[i] = lastOp.day
    /\ \E i, j \in DOMAIN lastOp.item_days :
          /\ Remaining(RecordOf(i), lastOp.day) = 0
          /\ valve_list[i].bg = "red"
          /\ Signalled(RecordOf(i).id) = {"EXPIRED"}
          /\ Remaining(RecordOf(j), lastOp.day) = RecordOf(j).avviso_anticipo + 1
          /\ valve_list[j].bg = "transparent"
          /\ Signalled(RecordOf(j).id) = {"OK"}

\* days of notice a row of the store can hold, the ones the spin box cannot
\* produce included
LeadTimes == {-1, 0, 1, 2, 90}

\* the days a Warning message among shown reports, each with the days of
\* notice lead of the record it is about
WarnedDays(shown, lead) ==
    {<<shown[k].giorni, lead>> : k \in {l \in DOMAIN shown : shown[l].icon = "Warning"}}

\* C24: the days a Warning message reports are an integer n with
\* 1 <= n <= avviso_anticipo of its record: never 0, never negative, never
\* more than the days of notice.  It holds of the messages of every check,
\* and of the message one stored record produces on the current date under
\* any days of notice.
C24_WarningDaysInWindow ==
    LET InWindow(w) ==
            /\ Len(w[1]) = 1
            /\ w[1][1] \in Int
            /\ 1 <= w[1][1] /\ w[1][1] <= w[2]
    IN  /\ \A k \in DOMAIN messages :
              messages[k].icon = "Warning" =>
                 \E i \in DOMAIN Stored :
                    /\ Stored[i].id = messages[k].id
                    /\ InWindow(<<messages[k].giorni, Stored[i].avviso_anticipo>>)
        /\ \A i \in DOMAIN Stored : \A lead \in LeadTimes :
              \A w \in WarnedDays(Promemoria([Stored[i] EXCEPT
                                                 !.avviso_anticipo = lead], today),
                                  lead) : InWindow(w)

\* C24 witness: a check showed a Warning of exactly 1 day for a record with
\* 1 day of notice, and a Warning of fewer days than the notice for another
C24_Witness ==
    /\ Checked
    /\ \E k, l \in DOMAIN messages : \E i, j \in DOMAIN Stored :
          /\ messages[k].icon = "Warning" /\ messages[k].id = Stored[i].id
          /\ messages[k].giorni = <<1>> /\ Stored[i].avviso_anticipo = 1
          /\ messages[l].icon = "Warning" /\ messages[l].id = Stored[j].id
          /\ messages[l].giorni[1] > 1
          /\ messages[l].giorni[1] < Stored[j].avviso_anticipo

====
